---- MODULE Spec2Model ----
(***************************************************************************)
(* The staggered search-refinement sequence of src/src/App.vue: a search   *)
(* issues query A (src "tg"), then query B (src "all"), then, behind two   *)
(* timers, queries C and D (src "all"); every well-formed response may     *)
(* replace the displayed results.  The component state is the set of Vue   *)
(* refs of the script block; promise continuations and timer callbacks are *)
(* the actions.  Time is a discrete clock in milliseconds.                 *)
(***************************************************************************)
EXTENDS Integers, Sequences, FiniteSets, TLC

\* ------------------------------------------------------------------ bounds
MaxSearches == 2        \* handleSearch calls per behaviour
MaxTotal == 2           \* response totals range over 0..MaxTotal
MaxTime == 6000         \* the clock stops advancing here
MaxKeys == 4            \* categories in a map given to updateSearchResults
ClockStep == 1000       \* granularity of the clock

\* ------------------------------------------------------- program constants
LoadingTimeoutMs == 5000
GapSecondMs == 2000
GapThirdMs == 3000
NotInOrderPos == 999

Null == 0               \* a null handle / null lastSearchParams
NoTotal == 0 - 1        \* response.total === undefined

VARIABLES
    loading,               \* ref loading
    total,                 \* searchResults.total
    mergedResults,         \* searchResults.mergedResults, as its key order
    isUpdating,            \* ref isUpdating
    updateCount,           \* ref updateCount
    updateTimer,           \* ref updateTimer (never assigned a handle)
    secondSearchTimeout,   \* ref secondSearchTimeout: a handle or Null
    thirdSearchTimeout,    \* ref thirdSearchTimeout: a handle or Null
    lastSearchParams,      \* ref lastSearchParams: Null or the call it copies
    hasSearched,           \* ref hasSearched
    isActivelySearching,   \* ref isActivelySearching
    mounted,               \* the component is mounted
    now,                   \* Date.now()
    nSearch,               \* number of handleSearch calls so far
    inflight,              \* search() promises not yet settled
    timers,                \* pending window.setTimeout callbacks of C and D
    loadTimers,            \* pending 5 s loading timeouts
    searchStart,           \* startTime of the latest handleSearch call
    hist,                  \* what the only call's queries returned
    merged,                \* the map updateSearchResults is checked on
    issued                 \* search() calls made so far, by parameters and src

vars == <<loading, total, mergedResults, isUpdating, updateCount, updateTimer,
          secondSearchTimeout, thirdSearchTimeout, lastSearchParams,
          hasSearched, isActivelySearching, mounted, now, nSearch, inflight,
          timers, loadTimers, searchStart, hist, merged, issued>>

Max(a, b) == IF a >= b THEN a ELSE b

\* ------------------------------------------------------- category ordering
\* A category key: its text after an optional "disk_" prefix.
Key(pre, body) == [pre |-> pre, body |-> body]

diskSortOrder ==
    <<"aliyun", "baidu", "quark", "115", "123", "xunlei", "mobile", "tianyi",
      "uc", "pikpak", "ed2k", "magnet", "other">>

\* The key bodies of the model that consist of digits only.
DigitBodies == {"101", "115", "123"}

\* /^\d+$/.test(key)
AllDigits(k) == ~k.pre /\ k.body \in DigitBodies

normalizeKey(k) == IF AllDigits(k) THEN Key(TRUE, k.body) ELSE k

\* key.replace(/^disk_/, ""), as the string diskSortOrder is searched for
denormalizeKey(k) == k.body

\* diskSortOrder.indexOf(s), -1 when absent
indexOf(s) ==
    IF \E i \in 1..Len(diskSortOrder) : diskSortOrder[i] = s
    THEN (CHOOSE i \in 1..Len(diskSortOrder) : diskSortOrder[i] = s) - 1
    ELSE 0 - 1

\* A variant that compares the raw indexOf results, -1 included.
SortPos_RawIndex(k) == indexOf(denormalizeKey(k))

SortPos(k) ==
    LET idx == indexOf(denormalizeKey(k))
    IN  IF idx = 0 - 1 THEN NotInOrderPos ELSE idx

\* Insert k behind every entry whose position is not greater (a stable sort).
RECURSIVE InsertSorted(_, _)
InsertSorted(k, s) ==
    IF s = <<>> THEN <<k>>
    ELSE IF SortPos(s[Len(s)]) <= SortPos(k) THEN Append(s, k)
    ELSE Append(InsertSorted(k, SubSeq(s, 1, Len(s) - 1)), s[Len(s)])

RECURSIVE SortEntries(_)
SortEntries(s) ==
    IF s = <<>> THEN <<>>
    ELSE InsertSorted(s[Len(s)], SortEntries(SubSeq(s, 1, Len(s) - 1)))

\* Object.entries(merged).map(normalizeKey), sorted
SortedMerged(keys) ==
    SortEntries([i \in 1..Len(keys) |-> normalizeKey(keys[i])])

\* --------------------------------------------------------------- responses
\* The category maps a response may carry, as Object.entries lists them.
Maps == { <<Key(FALSE, "101"), Key(FALSE, "quark"), Key(FALSE, "aliyun")>> }

Rejected == [kind |-> "reject", total |-> NoTotal, hasMap |-> FALSE, keys |-> <<>>]
NullResponse == [kind |-> "null", total |-> NoTotal, hasMap |-> FALSE, keys |-> <<>>]

Objects ==
    { [kind |-> "obj", total |-> t, hasMap |-> TRUE, keys |-> m] :
        t \in 0..MaxTotal, m \in Maps }
    \cup { [kind |-> "obj", total |-> t, hasMap |-> FALSE, keys |-> <<>>] :
        t \in (0..MaxTotal) \cup {NoTotal} }
    \cup { [kind |-> "obj", total |-> NoTotal, hasMap |-> TRUE, keys |-> m] :
        m \in Maps }

Responses == {Rejected, NullResponse} \cup Objects

\* response && response.total !== undefined
HasTotal(r) == r.kind = "obj" /\ r.total # NoTotal

\* A variant that publishes every response with a total, larger or not.
AtLeastCurrent_NoCompare(r, cur) == r.kind = "obj" /\ r.total # NoTotal

\* response && response.total >= searchResults.total
AtLeastCurrent(r, cur) == r.kind = "obj" /\ r.total # NoTotal /\ r.total >= cur

\* ------------------------------------------------------- the state record
\* What is remembered of the queries of the first handleSearch call while it
\* is the only one: how A ended ("pending", "failed", "nomap": a total
\* without a category map, "ok"), the total B returned and the largest total
\* any of its queries returned (NoTotal: none).
NoHist == [aOut |-> "pending", bTotal |-> NoTotal, best |-> NoTotal]

\* The handlers run to completion on one thread: each is a function from the
\* state at its start to the state at its end.
Cur ==
    [loading |-> loading, total |-> total, mergedResults |-> mergedResults,
     isUpdating |-> isUpdating, updateCount |-> updateCount,
     updateTimer |-> updateTimer, secondSearchTimeout |-> secondSearchTimeout,
     thirdSearchTimeout |-> thirdSearchTimeout,
     lastSearchParams |-> lastSearchParams, hasSearched |-> hasSearched,
     isActivelySearching |-> isActivelySearching, mounted |-> mounted,
     now |-> now, nSearch |-> nSearch, inflight |-> inflight,
     timers |-> timers, loadTimers |-> loadTimers,
     searchStart |-> searchStart, hist |-> hist, issued |-> issued]

Commit(s) ==
    /\ loading' = s.loading
    /\ total' = s.total
    /\ mergedResults' = s.mergedResults
    /\ isUpdating' = s.isUpdating
    /\ updateCount' = s.updateCount
    /\ updateTimer' = s.updateTimer
    /\ secondSearchTimeout' = s.secondSearchTimeout
    /\ thirdSearchTimeout' = s.thirdSearchTimeout
    /\ lastSearchParams' = s.lastSearchParams
    /\ hasSearched' = s.hasSearched
    /\ isActivelySearching' = s.isActivelySearching
    /\ mounted' = s.mounted
    /\ now' = s.now
    /\ nSearch' = s.nSearch
    /\ inflight' = s.inflight
    /\ timers' = s.timers
    /\ loadTimers' = s.loadTimers
    /\ searchStart' = s.searchStart
    /\ hist' = s.hist
    /\ issued' = s.issued
    /\ UNCHANGED merged

\* search(params) of call `chain`'s continuation, carrying the parameters of
\* call `params`; ph is "A" (src tg), "B" (src all, after a published A),
\* "Bfb" (src all, after a failed A), "C" or "D".
Query(chain, ph, params) == [chain |-> chain, ph |-> ph, params |-> params]

\* The src of the query of each phase.
SrcOf(ph) == IF ph = "A" THEN "tg" ELSE "all"

Issue(s, chain, ph, params) ==
    [s EXCEPT !.inflight = @ \cup {Query(chain, ph, params)},
              !.issued[params][SrcOf(ph)] = @ + 1]

\* A window.setTimeout of executeSecondAllSearch ("C") or
\* executeThirdAllSearch ("D"); its handle is the pair (kind, chain).
Timer(kind, chain, params, base, setAt, delay) ==
    [kind |-> kind, chain |-> chain, params |-> params, base |-> base,
     deadline |-> setAt + delay]

\* clearTimeout(handle) on the timers of one kind
ClearTimeout(ts, kind, handle) ==
    {t \in ts : ~(t.kind = kind /\ t.chain = handle)}

\* stopUpdate
StopUpdate(s) ==
    [s EXCEPT
        !.updateTimer = Null,
        !.timers = ClearTimeout(ClearTimeout(@, "C", s.secondSearchTimeout),
                                "D", s.thirdSearchTimeout),
        !.secondSearchTimeout = Null,
        !.thirdSearchTimeout = Null,
        !.isUpdating = FALSE,
        !.isActivelySearching = FALSE]

\* updateSearchResults(response)
UpdateSearchResults(s, r) ==
    IF r.kind # "obj" THEN s
    ELSE [s EXCEPT
            !.total = IF r.total = NoTotal THEN 0 ELSE r.total,
            !.mergedResults = IF r.hasMap THEN SortedMerged(r.keys) ELSE <<>>]

\* A variant with the subtraction the wrong way round.
DelayFor_Inverted(gap, currentTime, completeTime) ==
    Max(0, (currentTime - completeTime) - gap)

\* Math.max(0, gap - (currentTime - completeTime))
DelayFor(gap, currentTime, completeTime) ==
    Max(0, gap - (currentTime - completeTime))

\* startSecondAllSearch(firstAllSearchCompleteTime), run by call `chain`'s
\* continuation; e is the time that passes before its own Date.now().
StartSecondAllSearch(s, chain, completeTime, e) ==
    IF s.lastSearchParams = Null THEN s
    ELSE LET currentTime == s.now + e
             delay == DelayFor(GapSecondMs, currentTime, completeTime)
         IN  [s EXCEPT
                !.isUpdating = TRUE,
                !.isActivelySearching = TRUE,
                !.updateCount = 1,
                !.now = currentTime,
                !.timers = @ \cup {Timer("C", chain, s.lastSearchParams,
                                         completeTime, currentTime, delay)},
                !.secondSearchTimeout = chain]

\* A variant that runs executeThirdAllSearch at once, without the timer.
StartThirdAllSearch_NoTimer(s, chain, completeTime, e) ==
    IF s.lastSearchParams = Null THEN s
    ELSE Issue([s EXCEPT !.updateCount = 2, !.now = s.now + e],
               chain, "D", s.lastSearchParams)

\* startThirdAllSearch(secondAllSearchCompleteTime)
StartThirdAllSearch(s, chain, completeTime, e) ==
    IF s.lastSearchParams = Null THEN s
    ELSE LET currentTime == s.now + e
             delay == DelayFor(GapThirdMs, currentTime, completeTime)
         IN  [s EXCEPT
                !.updateCount = 2,
                !.now = currentTime,
                !.timers = @ \cup {Timer("D", chain, s.lastSearchParams,
                                         completeTime, currentTime, delay)},
                !.thirdSearchTimeout = chain]

\* The settled promise leaves the set of pending ones; its outcome is noted.
Settle(s, q, r) ==
    LET h == s.hist
        got == IF HasTotal(r) THEN r.total ELSE NoTotal
    IN  IF s.nSearch # 1 THEN [s EXCEPT !.inflight = @ \ {q}]
        ELSE [s EXCEPT
            !.inflight = @ \ {q},
            !.hist =
                [aOut |-> IF q.ph # "A" THEN h.aOut
                          ELSE IF ~HasTotal(r) THEN "failed"
                          ELSE IF r.hasMap THEN "ok" ELSE "nomap",
                 bTotal |-> IF q.ph \in {"B", "Bfb"} THEN got ELSE h.bTotal,
                 best |-> Max(h.best, got)]]

\* ----------------------------------------------------------------- actions
\* Time a handler may spend between two of its Date.now() calls.
SyncElapsed == {0, 3 * ClockStep}

Constructed ==
    /\ loading = FALSE
    /\ total = 0
    /\ mergedResults = <<>>
    /\ isUpdating = FALSE
    /\ updateCount = 0
    /\ updateTimer = Null
    /\ secondSearchTimeout = Null
    /\ thirdSearchTimeout = Null
    /\ lastSearchParams = Null
    /\ hasSearched = FALSE
    /\ isActivelySearching = FALSE
    /\ mounted = TRUE
    /\ now = 0
    /\ nSearch = 0
    /\ inflight = {}
    /\ timers = {}
    /\ loadTimers = {}
    /\ searchStart = 0
    /\ hist = NoHist
    /\ issued = [p \in 1..MaxSearches |-> [tg |-> 0, all |-> 0]]

Init == Constructed /\ merged = <<>>

\* handleSearch(params), up to the return of its synchronous part
HandleSearchStep(s) ==
    LET c == s.nSearch + 1
        s1 == StopUpdate(s)
        s2 == [s1 EXCEPT
                !.hasSearched = TRUE,
                !.isActivelySearching = TRUE,
                !.loading = TRUE,
                !.total = 0,
                !.mergedResults = <<>>,
                !.lastSearchParams = c,
                !.nSearch = c,
                !.searchStart = s.now,
                !.hist = NoHist,
                !.loadTimers = @ \cup
                    {[chain |-> c, deadline |-> s.now + LoadingTimeoutMs]}]
    IN  Issue(s2, c, "A", c)

HandleSearch ==
    /\ mounted
    /\ nSearch < MaxSearches
    /\ Commit(HandleSearchStep(Cur))

\* The .then/.catch of search(tgParams)
OnTgSettled(s, q, r) ==
    LET s1 == Settle(s, q, r)
    IN  IF HasTotal(r)
        THEN Issue([UpdateSearchResults(s1, r) EXCEPT !.loading = FALSE],
                   q.chain, "B", q.chain)
        ELSE Issue([s1 EXCEPT !.loading = FALSE], q.chain, "Bfb", q.chain)

ResolveA ==
    \E q \in inflight, r \in Responses :
        /\ q.ph = "A"
        /\ Commit(OnTgSettled(Cur, q, r))

\* The .then/.catch of search(allParams) issued after a published A
OnFirstAllSettled(s, q, r, e) ==
    LET s1 == Settle(s, q, r)
        s2 == IF AtLeastCurrent(r, s1.total)
              THEN UpdateSearchResults(s1, r) ELSE s1
    IN  StartSecondAllSearch(s2, q.chain, s.now, e)

ResolveB ==
    \E q \in inflight, r \in Responses, e \in SyncElapsed :
        /\ q.ph = "B"
        /\ now + e <= MaxTime
        /\ Commit(OnFirstAllSettled(Cur, q, r, e))

\* A variant that starts the second search without publishing B's response.
OnFallbackAllSettled_NoPublish(s, q, r, e) ==
    LET s1 == Settle(s, q, r)
    IN  IF r.kind = "reject" THEN [s1 EXCEPT !.isActivelySearching = FALSE]
        ELSE IF HasTotal(r)
        THEN StartSecondAllSearch(s1, q.chain, s.now, e)
        ELSE s1

\* The .then/.catch of search(allParams) issued after a failed A
OnFallbackAllSettled(s, q, r, e) ==
    LET s1 == Settle(s, q, r)
    IN  IF r.kind = "reject" THEN [s1 EXCEPT !.isActivelySearching = FALSE]
        ELSE IF HasTotal(r)
        THEN StartSecondAllSearch(UpdateSearchResults(s1, r), q.chain, s.now, e)
        ELSE s1

ResolveBfb ==
    \E q \in inflight, r \in Responses, e \in SyncElapsed :
        /\ q.ph = "Bfb"
        /\ now + e <= MaxTime
        /\ (HasTotal(r) \/ e = 0)
        /\ Commit(OnFallbackAllSettled(Cur, q, r, e))

\* executeSecondAllSearch / executeThirdAllSearch up to their await
ExecuteAllSearch(s, t) ==
    LET s1 == [s EXCEPT !.timers = @ \ {t}]
    IN  IF s.lastSearchParams = Null THEN StopUpdate(s1)
        ELSE Issue(s1, t.chain, t.kind, t.params)

FireC ==
    \E t \in timers :
        /\ t.kind = "C"
        /\ now >= t.deadline
        /\ Commit(ExecuteAllSearch(Cur, t))

FireD ==
    \E t \in timers :
        /\ t.kind = "D"
        /\ now >= t.deadline
        /\ Commit(ExecuteAllSearch(Cur, t))

\* executeSecondAllSearch after its await
OnSecondAllSettled(s, q, r, e) ==
    LET s1 == Settle(s, q, r)
        s2 == IF AtLeastCurrent(r, s1.total)
              THEN UpdateSearchResults(s1, r) ELSE s1
    IN  IF r.kind = "reject" THEN StopUpdate(s1)
        ELSE StartThirdAllSearch(s2, q.chain, s.now, e)

ResolveC ==
    \E q \in inflight, r \in Responses, e \in SyncElapsed :
        /\ q.ph = "C"
        /\ now + e <= MaxTime
        /\ (r.kind # "reject" \/ e = 0)
        /\ Commit(OnSecondAllSettled(Cur, q, r, e))

\* executeThirdAllSearch after its await
OnThirdAllSettled(s, q, r) ==
    LET s1 == Settle(s, q, r)
        s2 == IF AtLeastCurrent(r, s1.total)
              THEN UpdateSearchResults(s1, r) ELSE s1
    IN  StopUpdate(s2)

ResolveD ==
    \E q \in inflight, r \in Responses :
        /\ q.ph = "D"
        /\ Commit(OnThirdAllSettled(Cur, q, r))

\* A variant whose callback leaves loading as it is.
OnLoadingTimeout_KeepsLoading(s, t) ==
    [s EXCEPT !.loadTimers = @ \ {t}]

\* The 5 s timeout of handleSearch
OnLoadingTimeout(s, t) ==
    [s EXCEPT !.loadTimers = @ \ {t}, !.loading = FALSE]

FireLoadingTimeout ==
    \E t \in loadTimers :
        /\ now >= t.deadline
        /\ Commit(OnLoadingTimeout(Cur, t))

\* resetToInitial
ResetStep(s) ==
    [StopUpdate(s) EXCEPT
        !.hasSearched = FALSE,
        !.isActivelySearching = FALSE,
        !.loading = FALSE,
        !.total = 0,
        !.mergedResults = <<>>,
        !.isUpdating = FALSE,
        !.updateCount = 0]

ResetToInitial ==
    /\ mounted
    /\ Commit(ResetStep(Cur))

\* onUnmounted
Unmount ==
    /\ mounted
    /\ Commit([StopUpdate(Cur) EXCEPT !.mounted = FALSE])

\* A timer whose delay has passed runs before the clock moves on.
NoTimerDue ==
    /\ \A t \in timers : t.deadline > now
    /\ \A t \in loadTimers : t.deadline > now

Tick ==
    /\ NoTimerDue
    /\ now + ClockStep <= MaxTime
    /\ now' = now + ClockStep
    /\ UNCHANGED <<loading, total, mergedResults, isUpdating, updateCount,
                   updateTimer, secondSearchTimeout, thirdSearchTimeout,
                   lastSearchParams, hasSearched, isActivelySearching,
                   mounted, nSearch, inflight, timers, loadTimers,
                   searchStart, hist, merged, issued>>

Next ==
    \/ HandleSearch
    \/ ResolveA
    \/ ResolveB
    \/ ResolveBfb
    \/ FireC
    \/ ResolveC
    \/ FireD
    \/ ResolveD
    \/ FireLoadingTimeout
    \/ ResetToInitial
    \/ Unmount
    \/ Tick

Spec == Init /\ [][Next]_vars

\* The behaviours with a single handleSearch call.
HandleFirstSearch ==
    /\ nSearch = 0
    /\ HandleSearch

NextSingle ==
    \/ HandleFirstSearch
    \/ ResolveA
    \/ ResolveB
    \/ ResolveBfb
    \/ FireC
    \/ ResolveC
    \/ FireD
    \/ ResolveD
    \/ FireLoadingTimeout
    \/ ResetToInitial
    \/ Unmount
    \/ Tick

SpecSingle == Init /\ [][NextSingle]_vars

\* ---------------------------------------- updateSearchResults on any map
\* The category names a response may use: names of diskSortOrder, all-digit
\* names in and out of diskSortOrder, and names that are not in it.
KeyBodies == {"aliyun", "quark", "uc", "115", "101", "foo", "bar"}

\* The all-digit names in ascending numeric order.
DigitOrder == <<"101", "115", "123">>

DigitRank(k) == CHOOSE i \in 1..Len(DigitOrder) : DigitOrder[i] = k.body

\* Object.entries lists the integer-like keys first, in ascending order,
\* then the other keys in the order they were inserted.
EntriesOrder(seq) ==
    \A i, j \in 1..Len(seq) :
        (i < j /\ AllDigits(seq[j]))
            => (AllDigits(seq[i]) /\ DigitRank(seq[i]) < DigitRank(seq[j]))

\* Object.entries(merged) of the maps with at most MaxKeys categories.
EntriesOfMaps ==
    { seq \in UNION { [1..n -> {Key(FALSE, b) : b \in KeyBodies}] :
                        n \in 0..MaxKeys } :
        /\ \A i, j \in 1..Len(seq) : i # j => seq[i] # seq[j]
        /\ EntriesOrder(seq) }

\* A response whose merged_by_type is the map under check.
MapResponse(t) == [kind |-> "obj", total |-> t, hasMap |-> TRUE, keys |-> merged]

InitSort == Constructed /\ merged \in EntriesOfMaps

\* updateSearchResults(response) on its own.
UpdateSearchResultsCall ==
    /\ \E t \in 0..MaxTotal :
        Commit(UpdateSearchResults(Cur, MapResponse(t)))

NextSort == UpdateSearchResultsCall

SpecSort == InitSort /\ [][NextSort]_vars

\* ------------------------------------------------------------------ claims
\* A step that settles query q: only a settled promise leaves inflight.
Settles(q) == q \in inflight /\ q \notin inflight'

\* A step of handleSearch, and one of onUnmounted.
SearchStarts == nSearch' # nSearch
Unmounts == mounted /\ ~mounted'

\* Nothing is in flight and no timer is pending.
Quiescent == inflight = {} /\ timers = {} /\ loadTimers = {}

\* C1: between the reset of one handleSearch call and the next handleSearch
\* or resetToInitial call, searchResults.total never decreases, whichever
\* query settles or timer fires.
C1_TotalNeverRegresses ==
    [][(~SearchStarts /\ ~ResetToInitial) => total' >= total]_vars

\* C2: the settling of a query issued for an earlier request, after a later
\* handleSearch call, changes neither searchResults.total nor
\* searchResults.mergedResults.
C2_SupersededIgnored ==
    [][\A q \in inflight :
        (q.chain < nSearch /\ Settles(q))
            => (total' = total /\ mergedResults' = mergedResults)]_vars

\* A query that rejected, or resolved with a malformed response: none, one
\* without a total, or one without a category map.
Failed(r) == r.kind # "obj" \/ r.total = NoTotal \/ ~r.hasMap

\* A step in which query q settles with r and its continuation runs.
SettlesWith(q, r) ==
    /\ q \in inflight
    /\ \E e \in SyncElapsed :
        /\ now + e <= MaxTime
        /\ Commit(CASE q.ph = "A" -> OnTgSettled(Cur, q, r)
                    [] q.ph = "B" -> OnFirstAllSettled(Cur, q, r, e)
                    [] q.ph = "Bfb" -> OnFallbackAllSettled(Cur, q, r, e)
                    [] q.ph = "C" -> OnSecondAllSettled(Cur, q, r, e)
                    [] OTHER -> OnThirdAllSettled(Cur, q, r))

\* The phase after q's has begun: B is issued after A, the C timer is
\* scheduled after B, the D timer after C.
NextPhaseRuns(q) ==
    CASE q.ph = "A" ->
            \E p \in inflight : p.chain = q.chain /\ p.ph \in {"B", "Bfb"}
      [] q.ph \in {"B", "Bfb"} ->
            \E t \in timers : t.chain = q.chain /\ t.kind = "C"
      [] q.ph = "C" ->
            \E t \in timers : t.chain = q.chain /\ t.kind = "D"
      [] OTHER -> TRUE

\* C3: for the current search, when query A, B or C rejects or returns a
\* malformed response, the next phase still runs: B is issued after a failed
\* A, the C timer is scheduled after a failed B, the D timer after a failed C.
C3_FailuresNeverStop ==
    [][\A q \in inflight, r \in Responses :
        (/\ q.chain = nSearch /\ hasSearched /\ mounted
         /\ Failed(r)
         /\ SettlesWith(q, r))
            => NextPhaseRuns(q)']_vars

\* C4: once every query issued has settled and every timer scheduled has
\* fired, isUpdating, isActivelySearching and loading are all false.
C4_EverySearchTerminates ==
    (nSearch >= 1 /\ Quiescent)
        => (~isUpdating /\ ~isActivelySearching /\ ~loading)

\* C5: a handleSearch call or the unmount leaves no C or D timer pending, the
\* three handles null and isUpdating false.
C5_TimersCancelled ==
    [][(SearchStarts \/ Unmounts) =>
        (/\ timers' = {}
         /\ updateTimer' = Null
         /\ secondSearchTimeout' = Null
         /\ thirdSearchTimeout' = Null
         /\ ~isUpdating')]_vars

\* C6: while the query A of the latest handleSearch call is in flight and
\* fewer than 5000 ms have passed since that call, loading is true.
C6_LoadingStaysOn ==
    (/\ hasSearched
     /\ \E q \in inflight : q.ph = "A" /\ q.chain = nSearch
     /\ now < searchStart + LoadingTimeoutMs)
        => loading

\* C7: once 5000 ms have passed since the latest handleSearch call and its
\* timeout callback has run, loading is false even with query A still in
\* flight; the callback does not cancel the query, and a well-formed response
\* of that query arriving later is still published.
C7_LoadingBounded ==
    /\ []((/\ nSearch >= 1
           /\ now >= searchStart + LoadingTimeoutMs
           /\ \A t \in loadTimers : t.deadline > now) => ~loading)
    /\ [][\A t \in loadTimers : t \notin loadTimers' => inflight' = inflight]_vars
    /\ [][\A q \in inflight, r \in Responses :
            (/\ q.ph = "A" /\ q.chain = nSearch
             /\ now >= searchStart + LoadingTimeoutMs
             /\ HasTotal(r)
             /\ SettlesWith(q, r))
                => (/\ total' = r.total
                    /\ r.hasMap => Len(mergedResults') = Len(r.keys))]_vars

\* The only search's query A is still in flight 5000 ms after the call, and
\* the timeout has turned loading off.
C7_Witness ==
    /\ nSearch = 1 /\ hasSearched
    /\ \E q \in inflight : q.ph = "A" /\ q.chain = 1
    /\ now >= searchStart + LoadingTimeoutMs
    /\ loadTimers = {}
    /\ ~loading

GapOf(kind) == IF kind = "C" THEN GapSecondMs ELSE GapThirdMs

\* C8: query C is issued no earlier than 2000 ms after the completion time
\* recorded for query B, and query D no earlier than 3000 ms after the one
\* recorded for query C; a timer scheduled when the gap has already elapsed
\* has delay 0.
C8_MinimumGaps ==
    /\ [][\A t \in timers :
            (t \notin timers' /\ Query(t.chain, t.kind, t.params) \in inflight')
                => now' >= t.base + GapOf(t.kind)]_vars
    /\ [][\A t \in timers' \ timers :
            (now' - t.base >= GapOf(t.kind)) => t.deadline = now']_vars

\* Query D of the only search is issued 2000 + 3000 ms after the call, the
\* earliest the two gaps allow.
C8_Witness ==
    /\ nSearch = 1
    /\ \E q \in inflight : q.ph = "D" /\ q.chain = 1
    /\ now = searchStart + GapSecondMs + GapThirdMs

\* C9: when the sequence of a single search has ended, searchResults.total is
\* the largest total among the responses received (0 when there is none).
C9_FinalTotalIsMax ==
    (nSearch = 1 /\ hasSearched /\ inflight = {} /\ timers = {})
        => total = Max(0, hist.best)

\* The sequence ran to its end after a published A, B returned less than the
\* largest total, and that largest total is displayed.
C9_Witness ==
    /\ nSearch = 1 /\ hasSearched /\ mounted
    /\ inflight = {} /\ timers = {}
    /\ updateCount = 2 /\ ~isUpdating
    /\ hist.aOut = "ok"
    /\ hist.bTotal # NoTotal /\ hist.bTotal < hist.best
    /\ hist.best = MaxTotal
    /\ total = MaxTotal

\* C10: in a single search whose query A rejected or came back without a
\* total, once query B has returned total t, loading is false and
\* searchResults.total is t, and it stays t unless C or D returns more.
C10_FallbackWhenAFails ==
    (nSearch = 1 /\ hasSearched /\ hist.aOut = "failed" /\ hist.bTotal # NoTotal)
        => (/\ ~loading
            /\ total >= hist.bTotal
            /\ hist.best = hist.bTotal => total = hist.bTotal)

\* A failed, B returned 1, the sequence ran to its end without a larger
\* total, and 1 is displayed.
C10_Witness ==
    /\ nSearch = 1 /\ hasSearched /\ mounted
    /\ hist.aOut = "failed" /\ hist.bTotal = 1 /\ hist.best = 1
    /\ inflight = {} /\ timers = {} /\ updateCount = 2
    /\ total = 1 /\ ~loading

\* C11: in every search updateCount is 0 from the start of handleSearch until
\* query B completes, 1 from then until query C completes, and 2 after that;
\* it never goes back within one search.
C11_UpdateCountProgression ==
    /\ [][SearchStarts => updateCount' = 0]_vars
    /\ []((hasSearched /\ \E q \in inflight :
                q.chain = nSearch /\ q.ph \in {"A", "B", "Bfb"})
            => updateCount = 0)
    /\ [][(~SearchStarts /\ ~ResetToInitial) => updateCount' >= updateCount]_vars

\* C12: for the search that is not superseded, isUpdating is false before
\* query B completes, true from B's completion until D has resolved, and false
\* after that.
Current(c) == hasSearched /\ mounted /\ c = nSearch

C12_UpdatingWindow ==
    /\ []((\E q \in inflight :
                Current(q.chain) /\ q.ph \in {"A", "B", "Bfb"})
            => ~isUpdating)
    /\ [][\A q \in inflight :
            (Current(q.chain) /\ q.ph \in {"B", "Bfb", "C"} /\ Settles(q))
            => isUpdating']_vars
    /\ []((\/ \E t \in timers : Current(t.chain)
           \/ \E q \in inflight : Current(q.chain) /\ q.ph \in {"C", "D"})
            => isUpdating)
    /\ [][\A q \in inflight :
            (Current(q.chain) /\ q.ph = "D" /\ Settles(q)) => ~isUpdating']_vars

\* C13: a response of query B, C or D that lacks total or lacks the category
\* map leaves searchResults.total and mergedResults unchanged.
Malformed(r) == r.kind # "reject" /\ Failed(r)

C13_MalformedChangesNothing ==
    [][\A q \in inflight : \A r \in Responses :
        (q.ph \in {"B", "Bfb", "C", "D"} /\ Malformed(r) /\ SettlesWith(q, r))
        => (total' = total /\ mergedResults' = mergedResults)]_vars

\* C14: for every category map given to updateSearchResults the published
\* categories hold the keys of diskSortOrder first, in the order of
\* diskSortOrder (an all-digit key counts without the disk_ prefix it was
\* given), and then the keys that are not in diskSortOrder, in the order the
\* map had them.
Listed(k) == ~k.pre /\ \E i \in 1..Len(diskSortOrder) : diskSortOrder[i] = k.body

Rank(k) == CHOOSE i \in 1..Len(diskSortOrder) : diskSortOrder[i] = k.body

\* The published key of k: all-digit keys are published with the prefix.
Published(k) == IF k.body \in DigitBodies THEN Key(TRUE, k.body) ELSE k

PlaceIn(out, k) == CHOOSE i \in 1..Len(out) : out[i] = Published(k)

CategoryOrder(keys, out) ==
    /\ Len(out) = Len(keys)
    /\ \A i \in 1..Len(keys) : \E j \in 1..Len(out) : out[j] = Published(keys[i])
    /\ \A a, b \in 1..Len(keys) :
        LET ka == keys[a]
            kb == keys[b]
        IN  /\ (Listed(ka) /\ ~Listed(kb))
                => PlaceIn(out, ka) < PlaceIn(out, kb)
            /\ (Listed(ka) /\ Listed(kb) /\ Rank(ka) < Rank(kb))
                => PlaceIn(out, ka) < PlaceIn(out, kb)
            /\ (~Listed(ka) /\ ~Listed(kb) /\ a < b)
                => PlaceIn(out, ka) < PlaceIn(out, kb)

C15_AtMostFourQueries ==
    \A p \in 1..MaxSearches : issued[p].tg <= 1 /\ issued[p].all <= 3

\* C16: within one search B is issued only when A has resolved, the C timer
\* is set only when B has resolved and C is issued only when that timer fires,
\* the D timer is set only when C has resolved and D is issued only when that
\* timer fires; two queries of one search are never in flight together.
Fires(t) == t \in timers /\ t \notin timers' /\ t.deadline <= now

SettlesOf(chain, phs) ==
    \E q \in inflight : q.chain = chain /\ q.ph \in phs /\ Settles(q)

C16_PhasesInSequence ==
    /\ [](\A q1, q2 \in inflight : q1.chain = q2.chain => q1 = q2)
    /\ [](\A q \in inflight : \A t \in timers : q.chain # t.chain)
    /\ [][\A q \in inflight' \ inflight :
            CASE q.ph = "A" -> SearchStarts /\ q.chain = nSearch'
              [] q.ph \in {"B", "Bfb"} -> SettlesOf(q.chain, {"A"})
              [] OTHER -> \E t \in timers :
                            t.chain = q.chain /\ t.kind = q.ph /\ Fires(t)]_vars
    /\ [][\A t \in timers' \ timers :
            IF t.kind = "C" THEN SettlesOf(t.chain, {"B", "Bfb"})
            ELSE SettlesOf(t.chain, {"C"})]_vars

\* Two searches overlap, each with one query in flight, and the earlier one
\* has come to its query D.
C16_Witness ==
    /\ \E q \in inflight : q.chain = 1 /\ q.ph = "D"
    /\ \E q \in inflight : q.chain = 2

\* C17: a continuation of an earlier search (a settled query of it, or one of
\* its timer callbacks) never cancels a pending C or D timer of the latest
\* search and never sets isUpdating or isActivelySearching to false.
Runs(t) ==
    /\ t \in timers
    /\ t \notin timers'
    /\ Query(t.chain, t.kind, t.params) \in inflight' \ inflight

EarlierContinues ==
    \/ \E q \in inflight : q.chain < nSearch /\ Settles(q)
    \/ \E t \in timers : t.chain < nSearch /\ Runs(t)

C17_EarlierCannotDisturb ==
    [][EarlierContinues =>
        /\ \A t \in timers : t.chain = nSearch => t \in timers'
        /\ isUpdating => isUpdating'
        /\ isActivelySearching => isActivelySearching']_vars

\* C18: once a search has been started, whenever isActivelySearching is
\* false no query is in flight and no C or D timer is pending.
C18_NotSearchingIsQuiescent ==
    (nSearch >= 1 /\ ~isActivelySearching) => (inflight = {} /\ timers = {})

\* C19: after resetToInitial or onUnmounted, and until the next handleSearch,
\* no query is issued and no timer is set, isUpdating and isActivelySearching
\* stay false and, after resetToInitial, total stays 0 and mergedResults
\* stays empty, whatever query issued earlier resolves in the meantime.
AfterReset == nSearch >= 1 /\ mounted /\ ~hasSearched

C19_ResetIsFinal ==
    /\ [](AfterReset => (total = 0 /\ mergedResults = <<>>))
    /\ []((AfterReset \/ ~mounted) => (~isUpdating /\ ~isActivelySearching))
    /\ [][((AfterReset \/ ~mounted) /\ ~SearchStarts)
            => (inflight' \subseteq inflight /\ timers' \subseteq timers)]_vars

====
